---- MODULE Spec2Model ----
(***************************************************************************)
(* Model of the multi-model chat agent server.                             *)
(*                                                                         *)
(*   Part 1  the agent registry of index.ts (src/unnamed/part_004):        *)
(*           POST /start-ai-agent, POST /stop-ai-agent, the idle sweep     *)
(*           and disposeAiAgent.  Every `await` of a handler is a          *)
(*           suspension point, so every handler is a small process whose   *)
(*           program counter names the await it is parked on.              *)
(*   Part 2  the Router, MultiModelAgent (src/unnamed/part_000), the       *)
(*           agents' turn handling (LlamaAgent, src/unnamed/part_003) and  *)
(*           the response handlers (AnthropicResponseHandler,              *)
(*           src/unnamed/part_002, and LlamaResponseHandler).              *)
(***************************************************************************)
EXTENDS Integers, Sequences, FiniteSets, TLC

\* ------------------------------------------------------------------ bounds
\* Number of POST /start-ai-agent requests, of POST /stop-ai-agent requests
\* and of firings of the sweep interval.
NumStart == 3
NumStop == 1
NumTicks == 2
\* Last value of the wall clock (minutes).
MaxClock == 481
\* Router system: user messages, explicit switch requests, and the text
\* fragments a provider stream delivers at most.
RouterInbound == 1
MaxSwitch == 1
RouterFrags == 1
\* Relay system: user messages, stop-generation signals, and the text
\* fragments a provider stream delivers at most.
RelayInbound == 1
MaxStop == 1
RelayFrags == 3
\* Switch system: explicit switch requests, and messages that start no turn.
SwitchRequests == 2
SwitchInbound == 1
\* Longest channel id of the requests whose keys are derived.
MaxIdLen == 2
\* Apology messages after which the model stops following the Router.
MaxApologies == 3
\* Concurrent-turns system: user messages, and the text fragments a provider
\* stream delivers at most.
TurnsInbound == 2
TurnsFrags == 1

\* ------------------------------------------------------- program constants
\* inactivityThreshold = 480 * 60 * 1000 ms, kept here in minutes.
inactivityThreshold == 480

\* The registry key of the conversation (`ai-bot-${channel_id}`).
Keys == {"ai-bot-demo-channel"}

StartIds == 1..NumStart
StopIds == 1..NumStop
TickIds == 1..NumTicks
\* An agent instance is named after the start request whose createAgent call
\* constructed it.
Inst == StartIds
NoAgent == 0

VARIABLES
    aiAgentCache,     \* Map<string, AIAgent>: key -> instance, NoAgent if absent
    pendingAiAgents,  \* Set<string>
    startReq,         \* start request -> [pc, key, res, creating]
    inst,             \* instance -> its fields and the history kept about it
    stopReq,          \* stop request -> [pc, key, agent, res]
    tick,             \* interval firing -> [pc, now, key, agent, visited]
    clock,            \* Date.now(), in minutes
    agents,           \* MultiModelAgent.agents: the map's keys in insertion order
    activeAgent,      \* MultiModelAgent.activeAgent
    bus,              \* events the bot emitted, not yet delivered to its listeners
    routerSent,       \* events the Router has sent to the channel, in order
    last,             \* the event the Router handled last, and activeAgent before it
    turn,             \* per turn: the agent's handleMessage and its response handler
    messages,         \* per turn: the placeholder Message as the chat backend holds it
    hist,             \* per turn: commits to the Message and signals about it, in order
    apologies,        \* number of "all AI models are unavailable" messages posted
    inbound,          \* numbers of user messages, switch requests, stop signals so far
    derived           \* two requests: their conversation, endpoint and derived key

regVars == <<aiAgentCache, pendingAiAgents, startReq, inst, stopReq, tick, clock,
            derived>>

routerVars == <<agents, activeAgent, bus, routerSent, last, turn, messages, hist,
                apologies, inbound>>

vars == <<aiAgentCache, pendingAiAgents, startReq, inst, stopReq, tick, clock,
          agents, activeAgent, bus, routerSent, last, turn, messages, hist,
          apologies, inbound, derived>>

\* --------------------------------------------------------------- platforms
\* enum AgentPlatform, in the order MultiModelAgent.init inserts the agents.
Platforms == <<"anthropic", "openai", "llama">>

RECURSIVE SeqToSet(_)
SeqToSet(q) == IF q = <<>> THEN {} ELSE {Head(q)} \cup SeqToSet(Tail(q))

\* A platform name that is no AgentPlatform: `platform` is read from the
\* request body or the event data and is not validated.
UnknownPlatform == "gemini"
PlatformNames == SeqToSet(Platforms) \cup {UnknownPlatform}

\* The `platform` values of the start requests followed: the default of the
\* request body and a name that is no AgentPlatform.
StartPlatforms == {"anthropic", UnknownPlatform}

\* The providers whose Agent init rejects when the provider's credential is
\* absent; LlamaAgent.init falls back to its defaults and never rejects.
InitMayReject == {"anthropic", "openai"}

\* ---------------------------------------------------------- registry keys
\* A string is a sequence of tokens: the characters of a channel id, ":" and
\* the name of a channel type.
ChannelTypes == {"messaging", "livestream"}
IdChars == {"a", "b", "!"}
ChannelIds == UNION {[1..n -> IdChars] : n \in 1..MaxIdLen}
BotPrefix == <<"ai-bot-">>

\* channel_id.includes(':')
Includes(str, c) == \E n \in 1..Len(str) : str[n] = c

\* channel_id.split(':'): the parts between the separators.
RECURSIVE Split(_, _)
Split(str, sep) ==
    IF ~Includes(str, sep) THEN <<str>>
    ELSE LET n == CHOOSE i \in 1..Len(str) :
                      str[i] = sep /\ \A j \in 1..(i - 1) : str[j] # sep
         IN <<SubSeq(str, 1, n - 1)>> \o Split(SubSeq(str, n + 1, Len(str)), sep)

\* str.replace(/!/g, '')
RECURSIVE StripBang(_)
StripBang(str) ==
    IF str = <<>> THEN <<>>
    ELSE IF Head(str) = "!" THEN StripBang(Tail(str))
    ELSE <<Head(str)>> \o StripBang(Tail(str))

\* POST /start-ai-agent: channel_id_updated and user_id.
channel_id_updated(channel_id) ==
    IF Includes(channel_id, ":") /\ Len(Split(channel_id, ":")) > 1
    THEN Split(channel_id, ":")[2]
    ELSE channel_id

user_id(channel_id) == BotPrefix \o StripBang(channel_id_updated(channel_id))

\* POST /stop-ai-agent, POST /switch-model, GET /active-model: userId.
userId(channel_id) == BotPrefix \o StripBang(channel_id)

Endpoints == {"start", "stop", "switch", "query"}
KeyOf(endpoint, channel_id) ==
    IF endpoint = "start" THEN user_id(channel_id) ELSE userId(channel_id)

\* A request names its conversation (type and id) by the id alone or by the
\* cid, "type:id"; `channel_id` is what its body then carries.
Spellings == {"id", "cid"}
Conversations == [type : ChannelTypes, id : ChannelIds]
BodyChannelId(conv, spelling) ==
    IF spelling = "cid" THEN <<conv.type, ":">> \o conv.id ELSE conv.id

NoDerivation == [endpoint |-> "none", key |-> <<>>]
NoRequests == [c1 |-> [type |-> "", id |-> <<>>], s1 |-> "", d1 |-> NoDerivation,
               c2 |-> [type |-> "", id |-> <<>>], s2 |-> "", d2 |-> NoDerivation]

\* Two requests, for any conversations in any spelling, none handled yet.
InitDerive ==
    derived \in [c1 : Conversations, s1 : Spellings, d1 : {NoDerivation},
                 c2 : Conversations, s2 : Spellings, d2 : {NoDerivation}]

\* An endpoint receives the first, or the second, request and derives its key.
DeriveFirst(endpoint) ==
    /\ derived.d1 = NoDerivation
    /\ derived' = [derived EXCEPT !.d1 =
          [endpoint |-> endpoint,
           key |-> KeyOf(endpoint, BodyChannelId(derived.c1, derived.s1))]]
    /\ UNCHANGED <<aiAgentCache, pendingAiAgents, startReq, inst, stopReq, tick, clock>>
    /\ UNCHANGED routerVars

DeriveSecond(endpoint) ==
    /\ derived.d2 = NoDerivation
    /\ derived' = [derived EXCEPT !.d2 =
          [endpoint |-> endpoint,
           key |-> KeyOf(endpoint, BodyChannelId(derived.c2, derived.s2))]]
    /\ UNCHANGED <<aiAgentCache, pendingAiAgents, startReq, inst, stopReq, tick, clock>>
    /\ UNCHANGED routerVars

\* ---------------------------------------------------------------- registry
\* An agent instance (a MultiModelAgent): `activeAgent` and `agents` are its
\* fields, `failed` the providers whose init rejected, the rest is history.
NoInst == [created |-> FALSE, inited |-> FALSE, disposeCalls |-> 0,
           lastInteractionTs |-> 0, installed |-> FALSE, droppedBy |-> "none",
           activeAgent |-> "", agents |-> <<>>, failed |-> {}]

InitRegistry ==
    /\ aiAgentCache = [k \in Keys |-> NoAgent]
    /\ pendingAiAgents = {}
    /\ startReq = [r \in StartIds |->
                     [pc |-> "idle", key |-> "", res |-> "none", creating |-> FALSE,
                      platform |-> "", sawAgent |-> FALSE]]
    /\ inst = [i \in Inst |-> NoInst]
    /\ stopReq = [s \in StopIds |->
                     [pc |-> "idle", key |-> "", agent |-> NoAgent, res |-> "none"]]
    /\ tick = [t \in TickIds |->
                     [pc |-> "idle", now |-> 0, key |-> "", agent |-> NoAgent,
                      visited |-> {}]]
    /\ clock = 0

\* An instance that is initialized and whose dispose() was never called.
Live(i) == inst[i].created /\ inst[i].inited /\ inst[i].disposeCalls = 0

\* aiAgentCache.delete(key), with the history of which handler dropped which
\* instance from the registry.
CacheDelete(k, by) ==
    /\ aiAgentCache' = [aiAgentCache EXCEPT ![k] = NoAgent]
    /\ inst' = IF aiAgentCache[k] = NoAgent THEN inst
               ELSE [inst EXCEPT ![aiAgentCache[k]].droppedBy = by]

\* POST /start-ai-agent, from the request's arrival to its first await (or to
\* its response when it is coalesced): lines 69-71 and 99-103, 110-112.
StartArrive_PendingOnly(r) ==
    /\ startReq[r].pc = "idle"
    /\ \E k \in Keys, platform \in StartPlatforms :
        IF k \notin pendingAiAgents
        THEN /\ pendingAiAgents' = pendingAiAgents \cup {k}
             /\ startReq' = [startReq EXCEPT ![r] =
                    [pc |-> "connecting", key |-> k, res |-> "none", creating |-> TRUE,
                     platform |-> platform, sawAgent |-> aiAgentCache[k] # NoAgent]]
        ELSE /\ pendingAiAgents' = pendingAiAgents \ {k}
             /\ startReq' = [startReq EXCEPT ![r] =
                    [pc |-> "done", key |-> k, res |-> "ok", creating |-> FALSE,
                     platform |-> platform, sawAgent |-> aiAgentCache[k] # NoAgent]]
    /\ UNCHANGED <<aiAgentCache, inst, stopReq, tick, clock>>
    /\ UNCHANGED <<derived, routerVars>>

StartArrive(r) ==
    /\ startReq[r].pc = "idle"
    /\ \E k \in Keys, platform \in StartPlatforms :
        IF aiAgentCache[k] = NoAgent /\ k \notin pendingAiAgents
        THEN /\ pendingAiAgents' = pendingAiAgents \cup {k}
             /\ startReq' = [startReq EXCEPT ![r] =
                    [pc |-> "connecting", key |-> k, res |-> "none", creating |-> TRUE,
                     platform |-> platform, sawAgent |-> FALSE]]
        ELSE \* "already started": res.json, then `finally` deletes the key
             /\ pendingAiAgents' = pendingAiAgents \ {k}
             /\ startReq' = [startReq EXCEPT ![r] =
                    [pc |-> "done", key |-> k, res |-> "ok", creating |-> FALSE,
                     platform |-> platform, sawAgent |-> aiAgentCache[k] # NoAgent]]
    /\ UNCHANGED <<aiAgentCache, inst, stopReq, tick, clock>>
    /\ UNCHANGED <<derived, routerVars>>

\* upsertUser, addMembers, channel.watch and createAgent have completed:
\* createAgent returned a new agent (lastInteractionTs = Date.now(),
\* activeAgent = platform). agent.init() is called: it puts the three agents
\* in the map, then awaits Promise.all of their init.
StartCreated(r) ==
    /\ startReq[r].pc = "connecting"
    /\ startReq' = [startReq EXCEPT ![r].pc = "initing"]
    /\ inst' = [inst EXCEPT ![r] = [NoInst EXCEPT !.created = TRUE,
                                                  !.lastInteractionTs = clock,
                                                  !.activeAgent = startReq[r].platform,
                                                  !.agents = Platforms]]
    /\ UNCHANGED <<aiAgentCache, pendingAiAgents, stopReq, tick, clock>>
    /\ UNCHANGED <<derived, routerVars>>

\* agent.init() has completed: lines 94-98, then the response and `finally`.
StartInitDone_NoCheck(r) ==
    /\ startReq[r].pc = "initing"
    /\ LET k == startReq[r].key IN
        /\ aiAgentCache' = [aiAgentCache EXCEPT ![k] = r]
        /\ inst' = [inst EXCEPT ![r].inited = TRUE, ![r].installed = TRUE]
        /\ startReq' = [startReq EXCEPT ![r].pc = "done", ![r].res = "ok"]
        /\ pendingAiAgents' = pendingAiAgents \ {k}
    /\ UNCHANGED <<stopReq, tick, clock>>
    /\ UNCHANGED <<derived, routerVars>>

StartInitDone(r) ==
    /\ startReq[r].pc = "initing"
    /\ LET k == startReq[r].key IN
        IF aiAgentCache[k] # NoAgent
        THEN \* the loser: agent.dispose() is called and awaited
             /\ inst' = [inst EXCEPT ![r].inited = TRUE,
                                     ![r].disposeCalls = @ + 1]
             /\ startReq' = [startReq EXCEPT ![r].pc = "disposing"]
             /\ UNCHANGED <<aiAgentCache, pendingAiAgents>>
        ELSE /\ aiAgentCache' = [aiAgentCache EXCEPT ![k] = r]
             /\ inst' = [inst EXCEPT ![r].inited = TRUE, ![r].installed = TRUE]
             /\ startReq' = [startReq EXCEPT ![r].pc = "done", ![r].res = "ok"]
             /\ pendingAiAgents' = pendingAiAgents \ {k}
    /\ UNCHANGED <<stopReq, tick, clock>>
    /\ UNCHANGED <<derived, routerVars>>

\* The loser's agent.dispose() has completed: response, then `finally`.
StartDisposed(r) ==
    /\ startReq[r].pc = "disposing"
    /\ startReq' = [startReq EXCEPT ![r].pc = "done", ![r].res = "ok"]
    /\ pendingAiAgents' = pendingAiAgents \ {startReq[r].key}
    /\ UNCHANGED <<aiAgentCache, inst, stopReq, tick, clock>>
    /\ UNCHANGED <<derived, routerVars>>

\* An awaited call of the creating branch rejects (upsertUser, watch,
\* createAgent, agent.init or agent.dispose): catch answers 500, `finally`
\* deletes the key. agent.init() rejects when the init of any of its agents
\* does (Promise.all); the map keeps the three agents it was given.
StartFail(r) ==
    /\ startReq[r].pc \in {"connecting", "initing", "disposing"}
    /\ startReq' = [startReq EXCEPT ![r].pc = "done", ![r].res = "error"]
    /\ pendingAiAgents' = pendingAiAgents \ {startReq[r].key}
    /\ IF startReq[r].pc = "initing"
       THEN \E f \in SUBSET InitMayReject :
               /\ f # {}
               /\ inst' = [inst EXCEPT ![r].failed = f]
       ELSE UNCHANGED inst
    /\ UNCHANGED <<aiAgentCache, stopReq, tick, clock>>
    /\ UNCHANGED <<derived, routerVars>>

\* disposeAiAgent(aiAgent, userId): aiAgent.dispose() is called at once, the
\* caller then awaits it and channel.removeMembers.
disposeAiAgent(a) ==
    inst' = [inst EXCEPT ![a].disposeCalls = @ + 1]

\* POST /stop-ai-agent up to its await of disposeAiAgent (or to its response
\* when the registry has no agent for the key).
StopArrive(s) ==
    /\ stopReq[s].pc = "idle"
    /\ \E k \in Keys :
        IF aiAgentCache[k] # NoAgent
        THEN /\ disposeAiAgent(aiAgentCache[k])
             /\ stopReq' = [stopReq EXCEPT ![s] =
                    [pc |-> "disposing", key |-> k, agent |-> aiAgentCache[k],
                     res |-> "none"]]
        ELSE /\ stopReq' = [stopReq EXCEPT ![s] =
                    [pc |-> "done", key |-> k, agent |-> NoAgent, res |-> "ok"]]
             /\ UNCHANGED inst
    /\ UNCHANGED <<aiAgentCache, pendingAiAgents, startReq, tick, clock>>
    /\ UNCHANGED <<derived, routerVars>>

\* disposeAiAgent has completed: aiAgentCache.delete(userId), then the response.
StopDisposed(s) ==
    /\ stopReq[s].pc = "disposing"
    /\ CacheDelete(stopReq[s].key, "stop")
    /\ stopReq' = [stopReq EXCEPT ![s].pc = "done", ![s].res = "ok"]
    /\ UNCHANGED <<pendingAiAgents, startReq, tick, clock>>
    /\ UNCHANGED <<derived, routerVars>>

\* disposeAiAgent rejects (dispose or removeMembers): catch answers 500 and
\* the entry is not deleted.
StopFail(s) ==
    /\ stopReq[s].pc = "disposing"
    /\ stopReq' = [stopReq EXCEPT ![s].pc = "done", ![s].res = "error"]
    /\ UNCHANGED <<aiAgentCache, pendingAiAgents, startReq, inst, tick, clock>>
    /\ UNCHANGED <<derived, routerVars>>

\* `now - aiAgent.getLastInteraction() > inactivityThreshold`
IsInactive_AtThreshold(now, a) ==
    now - inst[a].lastInteractionTs >= inactivityThreshold

IsInactive(now, a) ==
    now - inst[a].lastInteractionTs > inactivityThreshold

\* The entries the for-of loop of a firing can still reach and finds inactive.
InactiveEntries(now, visited) ==
    {k \in Keys : /\ aiAgentCache[k] # NoAgent
                  /\ aiAgentCache[k] \notin visited
                  /\ IsInactive(now, aiAgentCache[k])}

\* The loop of the interval callback from its current position to its next
\* await (disposeAiAgent of an inactive entry) or to its end.
TickScan(t, now, visited) ==
    IF InactiveEntries(now, visited) = {}
    THEN /\ tick' = [tick EXCEPT ![t] = [pc |-> "done", now |-> now, key |-> "",
                                         agent |-> NoAgent, visited |-> visited]]
         /\ UNCHANGED inst
    ELSE \E k \in InactiveEntries(now, visited) :
         /\ disposeAiAgent(aiAgentCache[k])
         /\ tick' = [tick EXCEPT ![t] =
                [pc |-> "disposing", now |-> now, key |-> k,
                 agent |-> aiAgentCache[k],
                 visited |-> visited \cup {aiAgentCache[k]}]]

\* The setInterval callback fires: now = Date.now(), then the loop.
TickFire(t) ==
    /\ tick[t].pc = "idle"
    /\ TickScan(t, clock, {})
    /\ UNCHANGED <<aiAgentCache, pendingAiAgents, startReq, stopReq, clock>>
    /\ UNCHANGED <<derived, routerVars>>

\* disposeAiAgent has completed in the loop: aiAgentCache.delete(userId); the
\* loop then goes on to the map's next entry, which is none here: the key
\* just deleted was the only one of the map.
TickDisposed(t) ==
    /\ tick[t].pc = "disposing"
    /\ CacheDelete(tick[t].key, "sweep")
    /\ tick' = [tick EXCEPT ![t].pc = "done"]
    /\ UNCHANGED <<pendingAiAgents, startReq, stopReq, clock>>
    /\ UNCHANGED <<derived, routerVars>>

\* disposeAiAgent rejects in the loop: the callback's promise rejects, the
\* loop is abandoned and nothing is deleted.
TickFail(t) ==
    /\ tick[t].pc = "disposing"
    /\ tick' = [tick EXCEPT ![t].pc = "done"]
    /\ UNCHANGED <<aiAgentCache, pendingAiAgents, startReq, inst, stopReq, clock>>
    /\ UNCHANGED <<derived, routerVars>>

\* Time passes. The clock moves in steps of the order of the threshold (hours),
\* an awaited network call lasts seconds: the clock only steps while no
\* handler is parked on an await.
ClockSteps == {inactivityThreshold, inactivityThreshold + 1}

NoHandlerSuspended ==
    /\ \A r \in StartIds : startReq[r].pc \in {"idle", "done"}
    /\ \A s \in StopIds : stopReq[s].pc \in {"idle", "done"}
    /\ \A t \in TickIds : tick[t].pc \in {"idle", "done"}

AdvanceClock ==
    /\ NoHandlerSuspended
    /\ \E d \in ClockSteps :
        /\ clock + d <= MaxClock
        /\ clock' = clock + d
    /\ UNCHANGED <<aiAgentCache, pendingAiAgents, startReq, inst, stopReq, tick>>
    /\ UNCHANGED <<derived, routerVars>>

\* A message.new event reaches a listening agent: handleMessage sets
\* lastInteractionTs = Date.now().
Interaction(i) ==
    /\ Live(i)
    /\ inst[i].lastInteractionTs # clock
    /\ inst' = [inst EXCEPT ![i].lastInteractionTs = clock]
    /\ UNCHANGED <<aiAgentCache, pendingAiAgents, startReq, stopReq, tick, clock>>
    /\ UNCHANGED <<derived, routerVars>>

\* ------------------------------------------------------------------ Router
\* Every user message starts at most one turn.
Max(a, b) == IF a > b THEN a ELSE b
MaxTurns == Max(Max(RouterInbound, RelayInbound), TurnsInbound)
TurnIds == 1..MaxTurns

Event(type, kind, platform, from, msg) ==
    [type |-> type, kind |-> kind, platform |-> platform, from |-> from, msg |-> msg]
NoEvent == Event("", "", "", "", 0)
\* message.new of a message of the given kind: "user" (a user's text),
\* "empty" (no text) or "ai" (flagged ai_generated).
EvMessage(kind) == Event("message.new", kind, "", "", 0)
EvSwitch(platform) == Event("custom_model_switch", "", platform, "", 0)
\* custom_model_switch_error. Its data is only the error text; `from`, `msg` and,
\* for a response handler's event, `platform` (the provider whose stream
\* failed) record where the event came from.
EvSwitchError(from, platform, msg) ==
    Event("custom_model_switch_error", "", platform, from, msg)
EvStop == Event("ai_indicator.stop", "", "", "", 0)

Sent(type, platform) == [type |-> type, platform |-> platform]

\* Text is a sequence of tokens: the i-th fragment of a stream, or a literal
\* the code writes.
Frag(i) == [k |-> "frag", i |-> i]
Lit(name) == [k |-> name, i |-> 0]
InterruptedNotice == <<Lit("\n\n[Message generation was interrupted]")>>
GenerationErrorText == <<Lit("I'm sorry, but there was an error generating a response.")>>
RequestErrorText == <<Lit("Sorry, I encountered an error while processing your request.")>>

NoTurn == [pc |-> "none", provider |-> "", message_text |-> <<>>, chunk_counter |-> 0,
           stream |-> "none", delivered |-> 0, aborted |-> FALSE, stops |-> 0,
           listening |-> FALSE, message |-> 0]
\* A Message: `generating` is "unset" until a partial update sets it to
\* "true" or "false".
NoMessage == [exists |-> FALSE, text |-> <<>>, generating |-> "unset",
              ai_generated |-> FALSE]

RouterUnused ==
    /\ agents = <<>>
    /\ activeAgent = ""
    /\ bus = <<>>
    /\ routerSent = <<>>
    /\ last = [ev |-> NoEvent, before |-> ""]
    /\ turn = [t \in TurnIds |-> NoTurn]
    /\ messages = [t \in TurnIds |-> NoMessage]
    /\ hist = [t \in TurnIds |-> <<>>]
    /\ apologies = 0
    /\ inbound = [message |-> 0, switch |-> 0, stop |-> 0]

\* The Router after `new MultiModelAgent(client, channel, platform)` and
\* init(): all three agents are in the map, the listeners are registered.
InitRouter ==
    /\ agents = Platforms
    /\ activeAgent \in PlatformNames
    /\ bus = <<>>
    /\ routerSent = <<>>
    /\ last = [ev |-> NoEvent, before |-> ""]
    /\ turn = [t \in TurnIds |-> NoTurn]
    /\ messages = [t \in TurnIds |-> NoMessage]
    /\ hist = [t \in TurnIds |-> <<>>]
    /\ apologies = 0
    /\ inbound = [message |-> 0, switch |-> 0, stop |-> 0]

Has(map, platform) == platform \in SeqToSet(map)

\* MultiModelAgent.getAvailableModels / getActiveModel, as GET /active-model
\* answers them.
getAvailableModels == agents
getActiveModel == activeAgent

\* The first key of the map, in iteration order, that passes `keep`; "" if none.
RECURSIVE FirstKey(_, _)
FirstKey(map, skip) ==
    IF map = <<>> THEN ""
    ELSE IF Head(map) # skip THEN Head(map)
    ELSE FirstKey(Tail(map), skip)

\* The `generating` field of a Message as a partial update sets it.
Flag(b) == IF b THEN "true" ELSE "false"

\* Commit to the placeholder Message of turn t (chatClient.partialUpdateMessage).
Commit(t, text, generating) ==
    /\ messages' = [messages EXCEPT ![turn[t].message].text = text,
                                    ![turn[t].message].generating = Flag(generating)]
    /\ hist' = [hist EXCEPT ![t] =
                 Append(@, [k |-> "commit", text |-> text,
                            generating |-> Flag(generating)])]

\* partialUpdateMessage(id, {set: {generating: false}}): the text stays.
CommitFlag(t, generating) == Commit(t, messages[turn[t].message].text, generating)

\* A signal about the Message of turn t (channel.sendEvent).
SignalEntry(name) == [k |-> name, text |-> <<>>, generating |-> "unset"]
Signal(t, name) == hist' = [hist EXCEPT ![t] = Append(@, SignalEntry(name))]

\* The turn the next agent.handleMessage call will use.
FreeTurns == {t \in TurnIds : turn[t].pc = "none"}
NextTurn == CHOOSE t \in FreeTurns : \A u \in FreeTurns : t <= u

\* The id of the Message a sendMessage call creates: the server gives every
\* new Message an id no other Message has.
UnusedMessageIds == {m \in TurnIds : ~messages[m].exists}
NewMessageId == CHOOSE m \in UnusedMessageIds : \A n \in UnusedMessageIds : m <= n

\* LlamaAgent.handleMessage up to its first await: the guards were passed
\* (the caller checked them as well), the placeholder Message is posted with
\* sendMessage({text: '', ai_generated: true}); its message.new event comes
\* back to the bot's listeners. `rest` is the bus the event is appended to.
AgentHandleMessage_FirstMessage(provider, rest) ==
    LET t == NextTurn
        channelMessage == 1
    IN
    /\ turn' = [turn EXCEPT ![t] = [NoTurn EXCEPT !.pc = "placeholder",
                                                  !.provider = provider,
                                                  !.message = channelMessage]]
    /\ messages' = [messages EXCEPT ![channelMessage] =
                      [NoMessage EXCEPT !.exists = TRUE, !.ai_generated = TRUE]]
    /\ bus' = Append(rest, EvMessage("ai"))
    /\ UNCHANGED hist

AgentHandleMessage(provider, rest) ==
    LET t == NextTurn
        channelMessage == NewMessageId
    IN
    /\ turn' = [turn EXCEPT ![t] = [NoTurn EXCEPT !.pc = "placeholder",
                                                  !.provider = provider,
                                                  !.message = channelMessage]]
    /\ messages' = [messages EXCEPT ![channelMessage] =
                      [NoMessage EXCEPT !.exists = TRUE, !.ai_generated = TRUE]]
    /\ bus' = Append(rest, EvMessage("ai"))
    /\ UNCHANGED hist

\* LlamaAgent.handleMessage: an event without a message, with a message
\* flagged ai_generated or with a message without text is skipped.
LlamaHandleMessage_NoTextCheck(e, rest) ==
    IF e.kind = "ai"
    THEN /\ bus' = rest
         /\ UNCHANGED <<turn, messages, hist>>
    ELSE AgentHandleMessage("llama", rest)

LlamaHandleMessage(e, rest) ==
    IF e.kind # "user"
    THEN /\ bus' = rest
         /\ UNCHANGED <<turn, messages, hist>>
    ELSE AgentHandleMessage("llama", rest)

\* AnthropicAgent.handleMessage: the session starts as every session does, with
\* one placeholder Message and the thinking signal, then the provider stream
\* is opened and handed to an AnthropicResponseHandler.
AnthropicHandleMessage(rest) == AgentHandleMessage("anthropic", rest)

\* OpenAIAgent.handleMessage: the turn is handed to the agent; the agent and
\* its response handler are not followed further.
OpenAIHandleMessage(rest) ==
    LET t == NextTurn IN
    /\ turn' = [turn EXCEPT ![t] = [NoTurn EXCEPT !.pc = "delegated",
                                                  !.provider = "openai"]]
    /\ bus' = rest
    /\ UNCHANGED <<messages, hist>>

\* MultiModelAgent.processMessageWithAgent
processMessageWithAgent(provider, e, rest) ==
    IF e.kind # "user"
    THEN /\ bus' = rest
         /\ UNCHANGED <<turn, messages, hist>>
    ELSE IF provider = "openai"
    THEN OpenAIHandleMessage(rest)
    ELSE IF provider = "anthropic"
    THEN AnthropicHandleMessage(rest)
    ELSE LlamaHandleMessage(e, rest)

\* channel.sendMessage({text: "I'm sorry, but all AI models are currently
\* unavailable. ...", ai_generated: true})
PostApology(rest) ==
    /\ apologies' = apologies + 1
    /\ bus' = Append(rest, EvMessage("ai"))

\* MultiModelAgent.handleMessage
handleMessage(e, rest) ==
    /\ last' = [ev |-> e, before |-> activeAgent]
    /\ IF ~Has(agents, activeAgent)
       THEN IF agents # <<>>
            THEN /\ activeAgent' = Head(agents)
                 /\ processMessageWithAgent(Head(agents), e, rest)
                 /\ UNCHANGED apologies
            ELSE /\ PostApology(rest)
                 /\ UNCHANGED <<activeAgent, turn, messages, hist>>
       ELSE /\ processMessageWithAgent(activeAgent, e, rest)
            /\ UNCHANGED <<activeAgent, apologies>>
    /\ UNCHANGED <<agents, routerSent>>

\* MultiModelAgent.handleModelSwitch
handleModelSwitch_SendOnly(e, rest) ==
    /\ last' = [ev |-> e, before |-> activeAgent]
    /\ IF e.platform = ""
       THEN UNCHANGED <<activeAgent, routerSent>> /\ bus' = rest
       ELSE IF ~Has(agents, e.platform)
       THEN /\ routerSent' = Append(routerSent,
                                    Sent("custom_model_switch_error", e.platform))
            /\ bus' = Append(rest, EvSwitchError("switch", e.platform, 0))
            /\ UNCHANGED activeAgent
       ELSE /\ routerSent' = Append(routerSent,
                                    Sent("custom_model_switched", e.platform))
            /\ bus' = rest
            /\ UNCHANGED activeAgent
    /\ UNCHANGED <<agents, turn, messages, hist, apologies>>

handleModelSwitch_AssignFirst(e, rest) ==
    /\ last' = [ev |-> e, before |-> activeAgent]
    /\ IF e.platform = ""
       THEN UNCHANGED <<activeAgent, routerSent>> /\ bus' = rest
       ELSE IF ~Has(agents, e.platform)
       THEN /\ activeAgent' = e.platform
            /\ routerSent' = Append(routerSent,
                                    Sent("custom_model_switch_error", e.platform))
            /\ bus' = Append(rest, EvSwitchError("switch", e.platform, 0))
       ELSE /\ activeAgent' = e.platform
            /\ routerSent' = Append(routerSent,
                                    Sent("custom_model_switched", e.platform))
            /\ bus' = rest
    /\ UNCHANGED <<agents, turn, messages, hist, apologies>>

handleModelSwitch_Retarget(e, rest) ==
    /\ last' = [ev |-> e, before |-> activeAgent]
    /\ IF e.platform = ""
       THEN UNCHANGED <<activeAgent, routerSent, turn>> /\ bus' = rest
       ELSE IF ~Has(agents, e.platform)
       THEN /\ routerSent' = Append(routerSent,
                                    Sent("custom_model_switch_error", e.platform))
            /\ bus' = Append(rest, EvSwitchError("switch", e.platform, 0))
            /\ UNCHANGED <<activeAgent, turn>>
       ELSE /\ activeAgent' = e.platform
            /\ routerSent' = Append(routerSent,
                                    Sent("custom_model_switched", e.platform))
            /\ bus' = rest
            /\ turn' = [t \in TurnIds |->
                          IF turn[t].pc \in {"none", "done"} THEN turn[t]
                          ELSE [turn[t] EXCEPT !.provider = e.platform]]
    /\ UNCHANGED <<agents, messages, hist, apologies>>

handleModelSwitch(e, rest) ==
    /\ last' = [ev |-> e, before |-> activeAgent]
    /\ IF e.platform = ""
       THEN UNCHANGED <<activeAgent, routerSent>> /\ bus' = rest
       ELSE IF ~Has(agents, e.platform)
       THEN /\ routerSent' = Append(routerSent,
                                    Sent("custom_model_switch_error", e.platform))
            /\ bus' = Append(rest, EvSwitchError("switch", e.platform, 0))
            /\ UNCHANGED activeAgent
       ELSE /\ activeAgent' = e.platform
            /\ routerSent' = Append(routerSent,
                                    Sent("custom_model_switched", e.platform))
            /\ bus' = rest
    /\ UNCHANGED <<agents, turn, messages, hist, apologies>>

\* The fallback scan of handleModelSwitchError: the first key of the map
\* that is not the current platform.
FallbackTarget_Any(map, currentPlatform) == FirstKey(map, "")

FallbackTarget(map, currentPlatform) == FirstKey(map, currentPlatform)

\* MultiModelAgent.handleModelSwitchError (the event's data.error is set by
\* every sender of the event).
handleModelSwitchError(e, rest) ==
    /\ last' = [ev |-> e, before |-> activeAgent]
    /\ LET platform == FallbackTarget(agents, activeAgent) IN
       IF platform # ""
       THEN /\ activeAgent' = platform
            /\ routerSent' = Append(routerSent,
                                    Sent("custom_model_switched", platform))
            /\ bus' = rest
            /\ UNCHANGED apologies
       ELSE /\ PostApology(rest)
            /\ UNCHANGED <<activeAgent, routerSent>>
    /\ UNCHANGED <<agents, turn, messages, hist>>

\* A user posts a message in the channel: message.new reaches the Router.
UserMessage(kind, maxInbound) ==
    /\ inbound.message < maxInbound
    /\ apologies < MaxApologies
    /\ inbound' = [inbound EXCEPT !.message = @ + 1]
    /\ handleMessage(EvMessage(kind), bus)
    /\ UNCHANGED regVars

\* A message.new event handed to LlamaAgent.handleMessage itself: the agent
\* createAgent returns when it does not wrap the agents in the Router.
AgentMessage(kind, maxInbound) ==
    /\ inbound.message < maxInbound
    /\ inbound' = [inbound EXCEPT !.message = @ + 1]
    /\ last' = [ev |-> EvMessage(kind), before |-> activeAgent]
    /\ LlamaHandleMessage(EvMessage(kind), bus)
    /\ UNCHANGED <<agents, activeAgent, routerSent, apologies, regVars>>

\* POST /switch-model sends custom_model_switch on the agent's own channel and
\* the Router's listener receives it (the endpoint rejects a missing platform;
\* an event a channel member sends directly may come without one).
UserSwitch(platform, maxSwitch) ==
    /\ inbound.switch < maxSwitch
    /\ inbound' = [inbound EXCEPT !.switch = @ + 1]
    /\ handleModelSwitch(EvSwitch(platform), bus)
    /\ UNCHANGED regVars

\* An event the bot itself sent to the channel reaches the bot's listeners.
DeliverMessageNew ==
    /\ bus # <<>>
    /\ Head(bus).type = "message.new"
    /\ apologies < MaxApologies
    /\ handleMessage(Head(bus), Tail(bus))
    /\ UNCHANGED <<inbound, regVars>>

DeliverSwitchError ==
    /\ bus # <<>>
    /\ Head(bus).type = "custom_model_switch_error"
    /\ apologies < MaxApologies
    /\ handleModelSwitchError(Head(bus), Tail(bus))
    /\ UNCHANGED <<inbound, regVars>>

\* ------------------------------------------------- the agent's turn
\* What a turn's action leaves alone beside the registry.
TurnFrame == UNCHANGED <<agents, activeAgent, routerSent, last, apologies, inbound, regVars>>

\* sendMessage has resolved: the thinking signal is sent, then the provider
\* stream is requested.
TurnThinking(t) ==
    /\ turn[t].pc = "placeholder"
    /\ Signal(t, "thinking")
    /\ turn' = [turn EXCEPT ![t].pc = "opening"]
    /\ UNCHANGED <<messages, bus>>
    /\ TurnFrame

\* The stream is open: the response handler is constructed (it registers
\* its ai_indicator.stop listener) and run() starts pulling from the stream.
TurnOpened(t) ==
    /\ turn[t].pc = "opening"
    /\ turn' = [turn EXCEPT ![t].pc = "streaming", ![t].stream = "open",
                            ![t].listening = TRUE]
    /\ UNCHANGED <<messages, hist, bus>>
    /\ TurnFrame

TurnOpenFailed_NoCommit(t) ==
    /\ turn[t].pc = "opening"
    /\ turn' = [turn EXCEPT ![t].pc = "openFailed"]
    /\ UNCHANGED <<messages, hist, bus>>
    /\ TurnFrame

\* Opening the stream failed: the catch of handleMessage commits the apology.
TurnOpenFailed(t) ==
    /\ turn[t].pc = "opening"
    /\ Commit(t, RequestErrorText, FALSE)
    /\ turn' = [turn EXCEPT ![t].pc = "openFailed"]
    /\ UNCHANGED bus
    /\ TurnFrame

\* ... and then clears the indicator.
TurnOpenFailedClear(t) ==
    /\ turn[t].pc = "openFailed"
    /\ Signal(t, "clear")
    /\ turn' = [turn EXCEPT ![t].pc = "done"]
    /\ UNCHANGED <<messages, bus>>
    /\ TurnFrame

\* ------------------------------------------------- LlamaResponseHandler
\* A line of a chunk: JSON with message.content, or text the fallback
\* regular expression is applied to; `content` is what either extracts.
Line(json, content) == [json |-> json, content |-> content]

\* LlamaResponseHandler.parseChunk: the contents of the chunk's lines.
RECURSIVE parseChunk(_)
parseChunk(chunk) ==
    IF chunk = <<>> THEN <<>>
    ELSE Head(chunk).content \o parseChunk(Tail(chunk))

\* The chunks the stream may deliver next when it has delivered i fragments.
ChunksAfter(i) ==
    { <<>>,
      <<Line(TRUE, <<Frag(i + 1)>>)>>,
      <<Line(TRUE, <<>>), Line(FALSE, <<Frag(i + 1)>>)>> }

LlamaShouldCommit_Never(n) == FALSE

LlamaShouldCommit(n) == n % 15 = 0 \/ (n < 8 /\ n % 3 = 0)

\* One iteration of the for-await loop of run().
LlamaChunk(t, maxFrags) ==
    /\ turn[t].pc = "streaming"
    /\ turn[t].provider = "llama"
    /\ turn[t].delivered < maxFrags
    /\ \E chunk \in ChunksAfter(turn[t].delivered) :
        LET chunkText == parseChunk(chunk)
            text == turn[t].message_text \o chunkText
            n == turn[t].chunk_counter + 1
        IN IF chunkText = <<>>
           THEN UNCHANGED <<turn, messages, hist>>
           ELSE /\ turn' = [turn EXCEPT ![t].message_text = text,
                                        ![t].chunk_counter = n,
                                        ![t].delivered = @ + 1]
                /\ IF LlamaShouldCommit(n)
                   THEN Commit(t, text, TRUE)
                   ELSE UNCHANGED <<messages, hist>>
    /\ UNCHANGED bus
    /\ TurnFrame

\* The stream is exhausted: the final update.
LlamaEnd_Partial(t) ==
    /\ turn[t].pc = "streaming"
    /\ turn[t].provider = "llama"
    /\ Commit(t, messages[turn[t].message].text, FALSE)
    /\ turn' = [turn EXCEPT ![t].pc = "finalCommit", ![t].stream = "closed"]
    /\ UNCHANGED bus
    /\ TurnFrame

LlamaEnd(t) ==
    /\ turn[t].pc = "streaming"
    /\ turn[t].provider = "llama"
    /\ Commit(t, turn[t].message_text, FALSE)
    /\ turn' = [turn EXCEPT ![t].pc = "finalCommit", ![t].stream = "closed"]
    /\ UNCHANGED bus
    /\ TurnFrame

\* ... then the indicator is cleared.
LlamaClear(t) ==
    /\ turn[t].pc = "finalCommit"
    /\ turn[t].provider = "llama"
    /\ Signal(t, "clear")
    /\ turn' = [turn EXCEPT ![t].pc = "done"]
    /\ UNCHANGED <<messages, bus>>
    /\ TurnFrame

\* The stream throws: the catch of run() sends the error state.
LlamaError(t) ==
    /\ turn[t].pc = "streaming"
    /\ turn[t].provider = "llama"
    /\ Signal(t, "error")
    /\ turn' = [turn EXCEPT ![t].pc = "errorSignalled", ![t].stream = "closed"]
    /\ UNCHANGED <<messages, bus>>
    /\ TurnFrame

\* ... then updates the message with the notice or the apology.
LlamaErrorCommit(t) ==
    /\ turn[t].pc = "errorSignalled"
    /\ turn[t].provider = "llama"
    /\ IF turn[t].message_text # <<>>
       THEN Commit(t, turn[t].message_text \o InterruptedNotice, FALSE)
       ELSE Commit(t, GenerationErrorText, FALSE)
    /\ turn' = [turn EXCEPT ![t].pc = "done"]
    /\ UNCHANGED bus
    /\ TurnFrame

\* --------------------------------------------- AnthropicResponseHandler
AnthropicShouldCommit(n) == n % 20 = 0 \/ (n < 8 /\ n % 2 # 0)

\* handle(content_block_start)
AnthropicBlockStart(t) ==
    /\ turn[t].pc = "streaming"
    /\ turn[t].provider = "anthropic"
    /\ turn[t].stream = "open"
    /\ ~turn[t].aborted
    /\ Signal(t, "generating")
    /\ turn' = [turn EXCEPT ![t].stream = "block"]
    /\ UNCHANGED <<messages, bus>>
    /\ TurnFrame

\* handle(content_block_delta) with a text_delta
AnthropicDelta(t, maxFrags) ==
    /\ turn[t].pc = "streaming"
    /\ turn[t].provider = "anthropic"
    /\ turn[t].stream = "block"
    /\ ~turn[t].aborted
    /\ turn[t].delivered < maxFrags
    /\ LET text == turn[t].message_text \o <<Frag(turn[t].delivered + 1)>>
           n == turn[t].chunk_counter + 1
       IN /\ turn' = [turn EXCEPT ![t].message_text = text,
                                  ![t].chunk_counter = n,
                                  ![t].delivered = @ + 1]
          /\ IF AnthropicShouldCommit(n)
             THEN Commit(t, text, TRUE)
             ELSE UNCHANGED <<messages, hist>>
    /\ UNCHANGED bus
    /\ TurnFrame

\* handle(message_delta): the update with generating false; the case has no
\* break, so the message_stop case follows (its 500 ms delay first).
AnthropicMessageDelta(t) ==
    /\ turn[t].pc = "streaming"
    /\ turn[t].provider = "anthropic"
    /\ turn[t].stream \in {"open", "block"}
    /\ ~turn[t].aborted
    /\ Commit(t, turn[t].message_text, FALSE)
    /\ turn' = [turn EXCEPT ![t].pc = "delay", ![t].stream = "message_delta"]
    /\ UNCHANGED bus
    /\ TurnFrame

\* handle(message_stop): the 500 ms delay
AnthropicMessageStop(t) ==
    /\ turn[t].pc = "streaming"
    /\ turn[t].provider = "anthropic"
    /\ turn[t].stream = "message_delta"
    /\ ~turn[t].aborted
    /\ turn' = [turn EXCEPT ![t].pc = "delay", ![t].stream = "message_stop"]
    /\ UNCHANGED <<messages, hist, bus>>
    /\ TurnFrame

\* After the delay: the update with generating false
AnthropicAfterDelay(t) ==
    /\ turn[t].pc = "delay"
    /\ Commit(t, turn[t].message_text, FALSE)
    /\ turn' = [turn EXCEPT ![t].pc = "clearing"]
    /\ UNCHANGED bus
    /\ TurnFrame

\* ... then ai_indicator.clear, and the loop pulls the next event.
AnthropicClear(t) ==
    /\ turn[t].pc = "clearing"
    /\ Signal(t, "clear")
    /\ turn' = [turn EXCEPT ![t].pc = "streaming"]
    /\ UNCHANGED <<messages, bus>>
    /\ TurnFrame

\* The stream ends (after message_stop, by a closed connection, or after
\* the abort of the stop handler): the loop exits and run() returns.
AnthropicEnd(t) ==
    /\ turn[t].pc = "streaming"
    /\ turn[t].provider = "anthropic"
    /\ turn' = [turn EXCEPT ![t].pc = "done", ![t].stream = "closed"]
    /\ UNCHANGED <<messages, hist, bus>>
    /\ TurnFrame

\* The stream throws an overloaded_error: custom_model_switch_error is sent.
AnthropicOverloaded_AsError(t) ==
    /\ turn[t].pc = "streaming"
    /\ turn[t].provider = "anthropic"
    /\ turn[t].stream # "message_stop"
    /\ ~turn[t].aborted
    /\ hist' = [hist EXCEPT ![t] = Append(Append(@, SignalEntry("error")),
                                          SignalEntry("switch_error"))]
    /\ bus' = Append(bus, EvSwitchError("relay", turn[t].provider, t))
    /\ turn' = [turn EXCEPT ![t].pc = "done", ![t].stream = "closed"]
    /\ UNCHANGED messages
    /\ TurnFrame

AnthropicOverloaded(t) ==
    /\ turn[t].pc = "streaming"
    /\ turn[t].provider = "anthropic"
    /\ turn[t].stream # "message_stop"
    /\ ~turn[t].aborted
    /\ Signal(t, "switch_error")
    /\ bus' = Append(bus, EvSwitchError("relay", turn[t].provider, t))
    /\ turn' = [turn EXCEPT ![t].pc = "done", ![t].stream = "closed"]
    /\ UNCHANGED messages
    /\ TurnFrame

\* The stream throws any other error (the abort of the stop handler may
\* surface as one): ai_indicator.update with AI_STATE_ERROR is sent.
AnthropicError(t) ==
    /\ turn[t].pc = "streaming"
    /\ turn[t].provider = "anthropic"
    /\ turn[t].stream # "message_stop"
    /\ Signal(t, "error")
    /\ turn' = [turn EXCEPT ![t].pc = "done", ![t].stream = "closed"]
    /\ UNCHANGED <<messages, bus>>
    /\ TurnFrame

\* ------------------------------------------------------ stop generation
\* ai_indicator.stop reaches every registered response handler; each runs
\* handleStopGenerating up to its await: abort, then the update that sets
\* generating false. Only the Anthropic handler's controller is the
\* stream's; the Llama handler aborts a controller of its own.
StopSets(t) == turn[t].listening

UserStop ==
    /\ inbound.stop < MaxStop
    /\ \E t \in TurnIds : turn[t].listening
    /\ inbound' = [inbound EXCEPT !.stop = @ + 1]
    /\ turn' = [t \in TurnIds |->
                 IF turn[t].listening
                 THEN [turn[t] EXCEPT !.stops = @ + 1,
                                      !.aborted = (@ \/ turn[t].provider = "anthropic")]
                 ELSE turn[t]]
    /\ messages' = [m \in TurnIds |->
                     IF \E t \in TurnIds : StopSets(t) /\ turn[t].message = m
                     THEN [messages[m] EXCEPT !.generating = Flag(FALSE)]
                     ELSE messages[m]]
    /\ hist' = [t \in TurnIds |->
                 IF StopSets(t)
                 THEN Append(hist[t], [k |-> "commit",
                                       text |-> messages[turn[t].message].text,
                                       generating |-> Flag(FALSE)])
                 ELSE hist[t]]
    /\ last' = [ev |-> EvStop, before |-> activeAgent]
    /\ UNCHANGED <<agents, activeAgent, bus, routerSent, apologies, regVars>>

\* handleStopGenerating after its update: ai_indicator.clear
StopClear(t) ==
    /\ turn[t].stops > 0
    /\ Signal(t, "clear")
    /\ turn' = [turn EXCEPT ![t].stops = @ - 1]
    /\ UNCHANGED <<messages, bus>>
    /\ TurnFrame

\* ------------------------------------------------------- Router system
\* The steps of the agent's handleMessage and of its response handler.
TurnNext(t, maxFrags) ==
    \/ TurnThinking(t)
    \/ TurnOpened(t)
    \/ TurnOpenFailed(t)
    \/ TurnOpenFailedClear(t)
    \/ LlamaChunk(t, maxFrags)
    \/ LlamaEnd(t)
    \/ LlamaClear(t)
    \/ LlamaError(t)
    \/ LlamaErrorCommit(t)
    \/ AnthropicBlockStart(t)
    \/ AnthropicDelta(t, maxFrags)
    \/ AnthropicMessageDelta(t)
    \/ AnthropicMessageStop(t)
    \/ AnthropicAfterDelay(t)
    \/ AnthropicClear(t)
    \/ AnthropicEnd(t)
    \/ AnthropicOverloaded(t)
    \/ AnthropicError(t)

MessageKinds == {"user", "empty", "ai"}

\* The Router with its agents: user messages, explicit switch requests, the
\* bot's own events coming back, and the turns.
NextRouter ==
    \/ \E kind \in MessageKinds : UserMessage(kind, RouterInbound)
    \/ \E platform \in PlatformNames \cup {""} : UserSwitch(platform, MaxSwitch)
    \/ DeliverMessageNew
    \/ DeliverSwitchError
    \/ \E t \in TurnIds : TurnNext(t, RouterFrags)

\* A conversation whose agent was started: no request is in the registry's
\* handlers, the Router is initialized.
InitConversation == InitRegistry /\ InitRouter /\ derived = NoRequests

SpecRouter == InitConversation /\ [][NextRouter]_vars

\* The Router under sequences of explicit switch requests, with messages that
\* reach handleMessage but start no turn (no text, or flagged ai_generated).
NextSwitch ==
    \/ \E platform \in PlatformNames \cup {""} : UserSwitch(platform, SwitchRequests)
    \/ \E kind \in {"empty", "ai"} : UserMessage(kind, SwitchInbound)
    \/ DeliverSwitchError

SpecSwitch == InitConversation /\ [][NextSwitch]_vars

\* The Router with its agents under stop-generation signals, without
\* explicit switch requests.
NextRelay ==
    \/ \E kind \in MessageKinds : UserMessage(kind, RelayInbound)
    \/ DeliverMessageNew
    \/ DeliverSwitchError
    \/ UserStop
    \/ \E t \in TurnIds : TurnNext(t, RelayFrags) \/ StopClear(t)

SpecRelay == InitConversation /\ [][NextRelay]_vars

\* The Router with its agents under everything that reaches them: user
\* messages, explicit switch requests, stop-generation signals, the bot's own
\* events coming back, and the turns.
NextSelector ==
    \/ \E kind \in MessageKinds : UserMessage(kind, RouterInbound)
    \/ \E platform \in PlatformNames \cup {""} : UserSwitch(platform, MaxSwitch)
    \/ DeliverMessageNew
    \/ DeliverSwitchError
    \/ UserStop
    \/ \E t \in TurnIds : TurnNext(t, RouterFrags) \/ StopClear(t)

SpecSelector == InitConversation /\ [][NextSelector]_vars

\* The Router with its agents when switch requests and fallbacks are handled
\* while a turn is in flight, and a second user message follows.
NextInFlight ==
    \/ UserMessage("user", TurnsInbound)
    \/ \E platform \in PlatformNames : UserSwitch(platform, MaxSwitch)
    \/ DeliverMessageNew
    \/ DeliverSwitchError
    \/ \E t \in TurnIds : TurnNext(t, TurnsFrags)

SpecInFlight == InitConversation /\ [][NextInFlight]_vars

\* The Router with its agents when a second message arrives while the first
\* is being answered, under stop-generation signals; a message reaches the
\* Router's listener or the handleMessage of the Llama agent itself.
NextTurns ==
    \/ \E kind \in MessageKinds : UserMessage(kind, TurnsInbound)
    \/ \E kind \in MessageKinds : AgentMessage(kind, TurnsInbound)
    \/ DeliverMessageNew
    \/ DeliverSwitchError
    \/ UserStop
    \/ \E t \in TurnIds : TurnNext(t, TurnsFrags) \/ StopClear(t)

SpecTurns == InitConversation /\ [][NextTurns]_vars

\* ------------------------------------------------------ start-only system
NextStart ==
    \E r \in StartIds :
        \/ StartArrive(r)
        \/ StartCreated(r)
        \/ StartInitDone(r)
        \/ StartDisposed(r)
        \/ StartFail(r)

\* The server after module load: empty registry, no Router yet.
InitServer == InitRegistry /\ RouterUnused /\ derived = NoRequests

\* ------------------------------------------------------ key derivation system
InitKeys == InitRegistry /\ RouterUnused /\ InitDerive

NextKeys ==
    \/ \E endpoint \in Endpoints : DeriveFirst(endpoint)
    \/ \E endpoint \in Endpoints : DeriveSecond(endpoint)

SpecKeys == InitKeys /\ [][NextKeys]_vars

SpecStart == InitServer /\ [][NextStart]_vars

\* ------------------------------------- registry system: start, stop, sweep
NextRegistry ==
    \/ \E r \in StartIds :
        \/ StartArrive(r)
        \/ StartCreated(r)
        \/ StartInitDone(r)
        \/ StartDisposed(r)
        \/ StartFail(r)
    \/ \E s \in StopIds :
        \/ StopArrive(s)
        \/ StopDisposed(s)
        \/ StopFail(s)
    \/ \E t \in TickIds :
        \/ TickFire(t)
        \/ TickDisposed(t)
        \/ TickFail(t)
    \/ AdvanceClock
    \/ \E i \in Inst : Interaction(i)

SpecRegistry == InitServer /\ [][NextRegistry]_vars

\* ------------------------------------------------- claims on start requests
InFlightPcs == {"connecting", "initing", "disposing"}
ArrivedStarts == {r \in StartIds : startReq[r].pc # "idle"}
StartsQuiescent == \A r \in StartIds : startReq[r].pc \in {"idle", "done"}
CreatedInst == {i \in Inst : inst[i].created}

C2_NoSecondCreatingAttempt ==
    \A k \in Keys :
        Cardinality({r \in StartIds : startReq[r].key = k
                                      /\ startReq[r].pc \in InFlightPcs}) <= 1

\* ------------------------------------------- claims on the sweep and stop
\* C9 (as claimed): no agent instance ever has its disposal path invoked
\* twice, under any interleaving of sweep ticks and stop requests.
C9_NeverDoubleDisposed ==
    \A i \in Inst : inst[i].disposeCalls <= 1

\* C10 (as claimed): the registry entry a sweep deletes is an instance that
\* was disposed, and no instance that is initialized and not disposed is ever
\* dropped from the registry once installed.
C10_NoLiveInstanceDropped ==
    /\ \A i \in Inst : inst[i].droppedBy = "sweep" => inst[i].disposeCalls >= 1
    /\ \A i \in Inst : (inst[i].installed /\ Live(i))
                          => \E k \in Keys : aiAgentCache[k] = i

\* ------------------------------------------------- claims on the Router
LastSent == IF routerSent = <<>> THEN Sent("", "") ELSE routerSent[Len(routerSent)]
SwitchErrorFrom(from) ==
    last.ev.type = "custom_model_switch_error" /\ last.ev.from = from
RejectedSwitch ==
    /\ last.ev.type = "custom_model_switch"
    /\ last.ev.platform # ""
    /\ ~Has(agents, last.ev.platform)
Entries(t) == {hist[t][n] : n \in 1..Len(hist[t])}

\* C3 (as claimed): when the Router has handled an explicit switch request
\* naming a provider that is not in its provider map, a switch-error event
\* naming that provider was emitted and the active selector has the value it
\* had before; and delivering that switch-error event to the Router's own
\* listener leaves the active selector as it was.
C3_RejectedSwitchKeepsSelector ==
    /\ RejectedSwitch =>
          /\ activeAgent = last.before
          /\ LastSent = Sent("custom_model_switch_error", last.ev.platform)
    /\ SwitchErrorFrom("switch") => activeAgent = last.before

\* C4 (as claimed): the provider the automatic fallback selects is never the
\* provider whose stream produced the failure signal being handled.
C4_FallbackAvoidsFailedProvider ==
    SwitchErrorFrom("relay") => activeAgent # last.ev.platform

\* C5: a stream that ends overloaded sends no error-state signal for its
\* Message, only the overload switch signal; and when the Router handles that
\* signal while the overloaded provider is the active one, the active selector
\* becomes a different provider of the map, the last event the Router sent is
\* the switch-confirmed naming it, and from anthropic the selector goes to
\* openai.
C5_OverloadFallsBack ==
    /\ \A t \in TurnIds :
          SignalEntry("switch_error") \in Entries(t)
             => SignalEntry("error") \notin Entries(t)
    /\ (SwitchErrorFrom("relay") /\ last.ev.platform = last.before) =>
          /\ activeAgent # last.before
          /\ Has(agents, activeAgent)
          /\ LastSent = Sent("custom_model_switched", activeAgent)
          /\ (last.before = "anthropic" => activeAgent = "openai")

\* Witness of C5: an anthropic turn ended overloaded after its placeholder was
\* posted, the Router handled the signal with anthropic active, and openai is
\* now the active provider.
C5_Witness ==
    /\ SwitchErrorFrom("relay")
    /\ last.before = "anthropic"
    /\ last.ev.platform = "anthropic"
    /\ activeAgent = "openai"
    /\ LastSent = Sent("custom_model_switched", "openai")
    /\ \E t \in TurnIds : /\ last.ev.msg = t
                          /\ messages[t].exists
                          /\ SignalEntry("switch_error") \in Entries(t)

\* ------------------------------------------------- claims on the relays
\* C6 (as claimed): when the turn of a user message has ended, whatever way
\* its stream terminated, its one placeholder Message has generating false
\* and a text that is not empty.
C6_FinalStateCommitted ==
    \A t \in TurnIds :
        (turn[t].pc = "done" /\ turn[t].provider \in {"anthropic", "llama"})
        => /\ messages[t].exists
           /\ messages[t].generating = Flag(FALSE)
           /\ messages[t].text # <<>>

\* C7 (as claimed): when the stop handler of a relay whose generation is in
\* progress has run to its end, the Message has generating false.
C7_StopLeavesNotGenerating ==
    [][\A t \in TurnIds :
          (StopClear(t) /\ turn[t].pc = "streaming")
             => messages'[t].generating = Flag(FALSE)]_vars

\* C11 (as claimed): in every state of an initialized Router the active
\* selector the query returns is one of the initialized providers it lists, or
\* the Router is degraded (no provider in the map) and no provider is selected.
C11_SelectorIsInitializedProvider ==
    \/ Has(getAvailableModels, getActiveModel)
    \/ (getAvailableModels = <<>> /\ getActiveModel = "")

\* ------------------------------------------- claims on start and stop
\* C12 (as claimed): a start request whose Router init met a provider whose
\* Agent init failed has still answered success, and the provider map of its
\* Router holds every provider whose init succeeded and none whose init
\* failed.
C12_InitToleratesProviderFailure ==
    \A r \in StartIds :
        (startReq[r].pc = "done" /\ inst[r].failed # {})
        => /\ startReq[r].res = "ok"
           /\ \A p \in SeqToSet(Platforms) :
                 Has(inst[r].agents, p) <=> p \notin inst[r].failed

Switched == {n \in 1..Len(routerSent) : routerSent[n].type = "custom_model_switched"}
LastSwitched == routerSent[CHOOSE n \in Switched : \A o \in Switched : o <= n]

\* C15: handling an explicit switch request that names a provider of the map
\* sets the active selector to it and emits exactly one event, the
\* switch-confirmed naming it; and in every state the last switch-confirmed
\* event emitted names the active selector.
C15_SwitchSelectsAndConfirms ==
    /\ [][\A p \in PlatformNames :
            (UserSwitch(p, SwitchRequests) /\ Has(agents, p))
            => /\ activeAgent' = p
               /\ routerSent' = Append(routerSent, Sent("custom_model_switched", p))]_vars
    /\ [](Switched # {} => LastSwitched.platform = activeAgent)

\* Witness of C15: two switch requests naming different providers of the map
\* were handled one after the other; the selector is the second one's.
C15_Witness ==
    /\ inbound.switch = 2
    /\ Len(routerSent) = 2
    /\ routerSent[1].type = "custom_model_switched"
    /\ routerSent[2].type = "custom_model_switched"
    /\ routerSent[1].platform # routerSent[2].platform
    /\ last.ev = EvSwitch(routerSent[2].platform)
    /\ last.before = routerSent[1].platform
    /\ activeAgent = routerSent[2].platform

\* ------------------------------------------- claims on the indicator
\* C13 (as claimed): a session that emitted the thinking signal and whose
\* relay has finished has emitted a cleared or an error signal for its
\* Message, whatever way the stream ended.
C13_IndicatorNeverStuck ==
    \A t \in TurnIds :
        (turn[t].pc = "done" /\ SignalEntry("thinking") \in Entries(t))
        => \/ SignalEntry("clear") \in Entries(t)
           \/ SignalEntry("error") \in Entries(t)

\* C14 (as claimed): when a stop request that found an agent registered for
\* its conversation completes, the registry holds no entry for the
\* conversation and the agent it found has been disposed.
C14_StopRemovesAgent ==
    [][\A s \in StopIds :
          (stopReq[s].pc = "disposing" /\ stopReq'[s].pc = "done")
          => /\ aiAgentCache'[stopReq[s].key] = NoAgent
             /\ inst'[stopReq[s].agent].disposeCalls >= 1]_vars

\* ------------------------------------------- claims on the registry key
BothDerived == derived.d1 # NoDerivation /\ derived.d2 # NoDerivation

\* C17 (as claimed): requests for two distinct conversations (another type or
\* another id) never derive the same registry key, and two requests that
\* name the same conversation the same way derive the same key, whichever
\* endpoints receive them.
C17_KeyUniquePerConversation ==
    BothDerived =>
        /\ derived.c1 # derived.c2 => derived.d1.key # derived.d2.key
        /\ (derived.c1 = derived.c2 /\ derived.s1 = derived.s2)
              => derived.d1.key = derived.d2.key

\* ------------------------------------------- claims on the Relay's states
\* C18 (as claimed): when a stop signal arrives while a Relay is streaming,
\* the Message is committed with the whole accumulated buffer and
\* generating false; and a Relay that has received the stop signal consumes
\* no further fragment.
C18_StopCommitsWholeBuffer ==
    /\ [][\A t \in TurnIds :
            (inbound'.stop = inbound.stop + 1 /\ turn[t].listening
               /\ turn[t].pc = "streaming")
            => /\ messages'[t].text = turn[t].message_text
               /\ messages'[t].generating = Flag(FALSE)]_vars
    /\ [][\A t \in TurnIds :
            turn[t].stops > 0 => turn'[t].delivered = turn[t].delivered]_vars

\* C19 (as claimed): a Relay whose stream failed with a generic error has
\* emitted the error-state signal and leaves the Message with generating
\* false and with the buffer followed by the interruption notice, or with
\* the generic apology when the buffer is empty.
C19_GenericErrorEndsMessage ==
    \A t \in TurnIds :
        (turn[t].pc = "done" /\ SignalEntry("error") \in Entries(t))
        => /\ messages[t].generating = Flag(FALSE)
           /\ messages[t].text =
                 IF turn[t].message_text # <<>>
                 THEN turn[t].message_text \o InterruptedNotice
                 ELSE GenerationErrorText

\* C20 (as claimed): a session in which a fragment has arrived has emitted a
\* generating signal for its Message, after the thinking signal and before
\* any cleared or error signal.
C20_GeneratingSignalled ==
    \A t \in TurnIds :
        turn[t].delivered >= 1
        => \E g \in 1..Len(hist[t]) :
              /\ hist[t][g] = SignalEntry("generating")
              /\ \E h \in 1..(g - 1) : hist[t][h] = SignalEntry("thinking")
              /\ \A h \in 1..(g - 1) :
                    hist[t][h] \notin {SignalEntry("clear"), SignalEntry("error")}

\* ------------------------------------------- claims on the end of a stream
\* The fragments 1..n in order.
AllFrags(n) == [i \in 1..n |-> Frag(i)]

\* The stream of turn t was exhausted without an error: the Llama loop ran to
\* its end, the Anthropic stream delivered its message_delta.
Exhausted(t) ==
    \/ /\ turn[t].provider = "llama"
       /\ turn[t].stream = "closed"
       /\ SignalEntry("error") \notin Entries(t)
    \/ /\ turn[t].provider = "anthropic"
       /\ turn[t].stream \in {"message_delta", "message_stop"}

FinalCommit(t) ==
    [k |-> "commit", text |-> AllFrags(turn[t].delivered), generating |-> Flag(FALSE)]

C22_ThrottleCommitsBeforeEnd ==
    \A t \in TurnIds :
        (turn[t].stream = "closed" /\ turn[t].delivered >= 1)
        => \E k \in 1..Len(hist[t]) :
              /\ hist[t][k].k = "commit"
              /\ hist[t][k].generating = Flag(TRUE)
              /\ hist[t][k].text # <<>>

\* ------------------------------------------- claims on stop signals
\* C23 (as claimed): a stop signal that arrives when a session has ended
\* (and no earlier stop handler of the session is still running) writes
\* nothing to the session's Message and emits no signal for it.
C23_StopAfterEndIsNoOp ==
    [][\A t \in TurnIds :
          (turn[t].pc = "done" /\ turn[t].stops = 0
             /\ inbound'.stop = inbound.stop + 1)
          => /\ hist'[t] = hist[t]
             /\ messages'[t] = messages[t]
             /\ turn'[t].stops = 0]_vars

\* C24 (as claimed): once a Message has generating false, no later write
\* changes its text or sets generating to true.
C24_ClearedMessageImmutable ==
    [][\A t \in TurnIds :
          messages[t].generating = Flag(FALSE)
          => /\ messages'[t].text = messages[t].text
             /\ messages'[t].generating = Flag(FALSE)]_vars

\* ------------------------------------------- claims on concurrent turns
\* The Relays that have written to Message m.
Writers(m) ==
    {t \in TurnIds : /\ turn[t].message = m
                     /\ \E k \in 1..Len(hist[t]) : hist[t][k].k = "commit"}

\* C25: the turns of two user messages hold different placeholder Messages,
\* and no Message has been written by two Relays, also when the turns run
\* concurrently and a stop signal reaches all registered Relays.
C25_OneRelayPerMessage ==
    /\ \A t, u \in TurnIds :
          (t # u /\ turn[t].message # 0 /\ turn[u].message # 0)
          => turn[t].message # turn[u].message
    /\ \A m \in TurnIds : Cardinality(Writers(m)) <= 1
    /\ \A t \in TurnIds : turn[t].message # 0 => messages[turn[t].message].exists

\* Witness of C25: two turns were streaming at once when a stop signal
\* reached both Relays; each has written to its own Message.
C25_Witness ==
    /\ inbound.stop = 1
    /\ \A t \in 1..2 : /\ turn[t].pc = "streaming"
                       /\ turn[t].listening
                       /\ Writers(turn[t].message) = {t}
                       /\ messages[turn[t].message].generating = Flag(FALSE)
    /\ turn[1].message # turn[2].message

\* ------------------------------------------- claims on inbound messages
\* The bot posts nothing in a step: no Message, no apology, no signal, no
\* commit, no event.
PostsNothing ==
    /\ turn' = turn
    /\ messages' = messages
    /\ hist' = hist
    /\ apologies' = apologies
    /\ routerSent' = routerSent
    /\ (bus' = bus \/ (bus # <<>> /\ bus' = Tail(bus)))

\* C26: handling a message.new event whose message has no text or is flagged
\* ai_generated posts nothing, when the event reaches the Router (whose
\* active selector may name no provider of the map) and when it reaches the
\* handleMessage of an agent; the bot's own placeholder coming back is such
\* an event.
C26_SkippedMessagesPostNothing ==
    [][\A kind \in {"empty", "ai"} :
          (\/ UserMessage(kind, TurnsInbound)
           \/ AgentMessage(kind, TurnsInbound)
           \/ (DeliverMessageNew /\ Head(bus).kind = kind))
          => PostsNothing]_vars

\* Witness of C26: the Router has handled a message without text and then,
\* while its selector still named no provider of the map, a message flagged
\* ai_generated, which its fallback took; nothing was posted.
C26_Witness ==
    /\ inbound.message = 2
    /\ last.ev = EvMessage("ai")
    /\ last.before = UnknownPlatform
    /\ activeAgent = Head(agents)
    /\ \A t \in TurnIds : turn[t] = NoTurn /\ ~messages[t].exists /\ hist[t] = <<>>
    /\ apologies = 0
    /\ bus = <<>>
    /\ routerSent = <<>>

\* ------------------------------------------- claims on a failed open
\* The Llama agent's request for the provider stream of turn t failed.
OpenFailed(t) ==
    /\ turn[t].provider = "llama"
    /\ turn[t].pc \in {"openFailed", "done"}
    /\ turn[t].stream = "none"

ApologyCommit == [k |-> "commit", text |-> RequestErrorText, generating |-> Flag(FALSE)]

\* C27: when the Llama agent's request for the provider stream has failed,
\* the placeholder holds the apology with generating false, no response
\* handler was started for the turn, no commit of the turn had generating
\* true, and the turn ends with the cleared signal.
C27_OpenFailureApologizes ==
    \A t \in TurnIds :
        OpenFailed(t)
        => /\ messages[turn[t].message].text = RequestErrorText
           /\ messages[turn[t].message].generating = Flag(FALSE)
           /\ ~turn[t].listening
           /\ turn[t].delivered = 0
           /\ hist[t] = IF turn[t].pc = "done"
                        THEN <<SignalEntry("thinking"), ApologyCommit, SignalEntry("clear")>>
                        ELSE <<SignalEntry("thinking"), ApologyCommit>>

\* Witness of C27: a Llama turn whose stream could not be opened has ended
\* with the cleared signal.
C27_Witness ==
    \E t \in TurnIds :
        /\ OpenFailed(t)
        /\ turn[t].pc = "done"
        /\ messages[turn[t].message].exists
        /\ SignalEntry("clear") \in Entries(t)

\* ------------------------------------------- claims on the selector
\* C28 (as claimed): when a user message arrives while the active selector
\* names no provider of the (non-empty) map, the Router selects the first
\* provider in map order, emits the switch-confirmed event naming it, and
\* hands the turn to that provider's Agent once.
C28_FallbackOnTurnConfirms ==
    [][(UserMessage("user", RouterInbound) /\ ~Has(agents, activeAgent)
          /\ agents # <<>>)
       => /\ activeAgent' = Head(agents)
          /\ routerSent' = Append(routerSent,
                                  Sent("custom_model_switched", Head(agents)))
          /\ \E t \in TurnIds :
                /\ turn[t] = NoTurn
                /\ turn'[t].provider = Head(agents)
                /\ \A u \in TurnIds \ {t} : turn'[u] = turn[u]]_vars

\* C29: the provider map never changes, and a step changes the active
\* selector only when it handles an explicit switch request whose target is
\* in the map (the selector becomes the target), a switch-error event (the
\* automatic fallback), or a message while the selector names no provider of
\* the map (the fallback of the dispatch); so dispatching to a present Agent,
\* a stop signal, a Relay's generic error and a rejected switch request leave
\* the selector as it was.
C29_SelectorChangedOnlyBySwitchOrFallback ==
    [][/\ agents' = agents
       /\ activeAgent' # activeAgent
          => \/ \E p \in PlatformNames :
                   UserSwitch(p, MaxSwitch) /\ Has(agents, p) /\ activeAgent' = p
             \/ DeliverSwitchError
             \/ /\ ~Has(agents, activeAgent)
                /\ \/ \E kind \in MessageKinds : UserMessage(kind, RouterInbound)
                   \/ DeliverMessageNew]_vars

\* Witness of C29: a turn was dispatched to the present active Agent, its
\* Relay ended with the generic error, a switch request was rejected, and a
\* stop signal was handled last; the selector is the one the turn was
\* dispatched to and the switch-error event is not delivered yet.
C29_Witness ==
    /\ last.ev = EvStop
    /\ activeAgent = last.before
    /\ routerSent = <<Sent("custom_model_switch_error", UnknownPlatform)>>
    /\ bus # <<>>
    /\ Head(bus).type = "custom_model_switch_error"
    /\ \E t \in TurnIds : /\ turn[t].provider = activeAgent
                          /\ SignalEntry("error") \in Entries(t)

\* ------------------------------------------- claims on the start response
\* C30 (as claimed): when a start request answers success, the registry
\* holds an initialized agent that was not disposed for its conversation,
\* also when the request was coalesced with one in flight.
C30_StartedMeansRegistered ==
    [][\A r \in StartIds :
          (startReq[r].pc # "done" /\ startReq'[r].pc = "done"
             /\ startReq'[r].res = "ok")
          => /\ aiAgentCache'[startReq'[r].key] # NoAgent
             /\ inst'[aiAgentCache'[startReq'[r].key]].created
             /\ inst'[aiAgentCache'[startReq'[r].key]].inited
             /\ inst'[aiAgentCache'[startReq'[r].key]].disposeCalls = 0]_vars

\* ------------------------------------------- claims on turns in flight
InFlight(t) == turn[t].pc \notin {"none", "done"}

\* C31: handling a switch request or a switch-error event (the fallback)
\* touches no turn, no Message and no Relay's log; a turn keeps the provider
\* it was started with and its own Message from its dispatch to its end; and
\* a turn is dispatched to the Agent of the provider the selector names when
\* the dispatch is made.
C31_SwitchLeavesTurnsInFlight ==
    /\ [][((\E p \in PlatformNames : UserSwitch(p, MaxSwitch)) \/ DeliverSwitchError)
          => (turn' = turn /\ messages' = messages /\ hist' = hist)]_vars
    /\ [][\A t \in TurnIds :
            turn[t].pc # "none"
            => /\ turn'[t].provider = turn[t].provider
               /\ turn'[t].message = turn[t].message]_vars
    /\ [][\A t \in TurnIds :
            (turn[t].pc = "none" /\ turn'[t].pc # "none")
            => turn'[t].provider = activeAgent']_vars

\* Witness of C31: a Llama turn is still streaming, and has consumed a
\* fragment, when the turn of a later message has been dispatched to
\* anthropic, which a confirmed switch made the active provider in between;
\* each turn has its own Message.
C31_Witness ==
    /\ turn[1].provider = "llama"
    /\ turn[1].pc = "streaming"
    /\ turn[1].message_text = <<Frag(1)>>
    /\ turn[2].provider = "anthropic"
    /\ InFlight(2)
    /\ activeAgent = "anthropic"
    /\ routerSent = <<Sent("custom_model_switched", "anthropic")>>
    /\ turn[1].message # turn[2].message
    /\ messages[turn[1].message].exists

\* ------------------------------------------- claims on a failed start
\* C32 (as claimed): when a creating start request fails, it answers an
\* error, the registry holds no entry for its conversation and the pending
\* set does not contain its key, so that the next start request for the
\* conversation begins a creating attempt.
C32_FailedStartLeavesNothing ==
    [][\A r \in StartIds :
          (startReq[r].creating /\ startReq[r].pc # "done"
             /\ startReq'[r].pc = "done" /\ startReq'[r].res = "error")
          => /\ startReq[r].key \notin pendingAiAgents'
             /\ aiAgentCache'[startReq[r].key] = NoAgent]_vars

====
